---- MODULE Spec2Model ----
(***************************************************************************)
(* Model of the subtitle scripts of pietrocaselani/Subtitles:              *)
(*   - subtitles-sync.py      (the synchronizer, specification SyncSpec)   *)
(*   - subtitles-extractor.py (the extractor, specification ExtSpec)       *)
(* File names and paths are sequences of one-character strings, so that    *)
(* prefix, suffix, split and case folding are computed character by        *)
(* character as the Python string methods compute them.                    *)
(***************************************************************************)
EXTENDS Integers, Sequences, FiniteSets, TLC

(***************************************************************************)
(* Bounds of the model.                                                    *)
(***************************************************************************)
\* largest number of entries of the synchronizer's directory
MaxFiles == 2
\* largest number of videos the scan returns to the synchronizer
MaxVideos == 2
\* largest number of runs of the synchronizer over the same directory
MaxRuns == 2

(***************************************************************************)
(* Python string and path functions, as used by the scripts.               *)
(***************************************************************************)
Upper == <<"A","B","C","D","E","F","G","H","I","J","K","L","M",
           "N","O","P","Q","R","S","T","U","V","W","X","Y","Z">>
LowerLetters == <<"a","b","c","d","e","f","g","h","i","j","k","l","m",
                  "n","o","p","q","r","s","t","u","v","w","x","y","z">>

\* one character of str.lower()
LowerChar(c) ==
    IF \E k \in 1..Len(Upper) : Upper[k] = c
    THEN LowerLetters[CHOOSE k \in 1..Len(Upper) : Upper[k] = c]
    ELSE c

\* str.lower()
Lower(s) == [k \in 1..Len(s) |-> LowerChar(s[k])]

\* str.startswith(prefix)
StartsWith(s, prefix) ==
    /\ Len(prefix) <= Len(s)
    /\ SubSeq(s, 1, Len(prefix)) = prefix

\* str.endswith(suffix)
EndsWith(s, suffix) ==
    /\ Len(suffix) <= Len(s)
    /\ SubSeq(s, Len(s) - Len(suffix) + 1, Len(s)) = suffix

RECURSIVE RFindFrom(_, _, _)
\* the last position at or before k where c occurs in s, 0 when there is none
RFindFrom(s, c, k) ==
    IF k = 0 THEN 0
    ELSE IF s[k] = c THEN k
    ELSE RFindFrom(s, c, k - 1)

\* str.rfind(c), 1-based, 0 when c does not occur
RFind(s, c) == RFindFrom(s, c, Len(s))

\* os.path.basename(p): what follows the last "/"
basename(p) == SubSeq(p, RFind(p, "/") + 1, Len(p))

\* os.path.dirname(p): what precedes the last "/" (paths of the model have
\* no trailing or repeated "/")
dirname(p) == IF RFind(p, "/") <= 1 THEN SubSeq(p, 1, RFind(p, "/"))
              ELSE SubSeq(p, 1, RFind(p, "/") - 1)

\* os.path.join(a, b) for two components
join(a, b) ==
    IF Len(b) > 0 /\ b[1] = "/" THEN b
    ELSE IF a = <<>> \/ a[Len(a)] = "/" THEN a \o b
    ELSE a \o <<"/">> \o b

\* os.path.splitext(p): the extension starts at the last "." of the last
\* path component, unless only dots precede it in that component
splitext(p) ==
    LET sepIndex == RFind(p, "/")
        dotIndex == RFind(p, ".")
    IN  IF /\ dotIndex > sepIndex
           /\ \E k \in (sepIndex + 1)..(dotIndex - 1) : p[k] # "."
        THEN <<SubSeq(p, 1, dotIndex - 1), SubSeq(p, dotIndex, Len(p))>>
        ELSE <<p, <<>> >>

RECURSIVE SplitFrom(_, _, _)
\* str.split(sep) of s, given the segment cur collected so far
SplitFrom(s, sep, cur) ==
    IF s = <<>> THEN <<cur>>
    ELSE IF Head(s) = sep THEN <<cur>> \o SplitFrom(Tail(s), sep, <<>>)
    ELSE SplitFrom(Tail(s), sep, Append(cur, Head(s)))

\* str.split(sep) for a one-character separator
split(s, sep) == SplitFrom(s, sep, <<>>)

(***************************************************************************)
(* Names used by the model.                                                *)
(***************************************************************************)
None == <<>>

ShowS01E01 == <<"S","h","o","w",".","S","0","1","E","0","1">>
DotSrt == <<".","s","r","t">>
Eng == <<"e","n","g">>
Pt == <<"p","t">>

\* the directory the synchronizer is pointed at
directory == <<"/","d">>

\* what the directory may hold besides the videos
DirNames ==
    << ShowS01E01 \o DotSrt,                                   \* Show.S01E01.srt
       ShowS01E01 \o <<".">> \o Eng \o DotSrt,                 \* Show.S01E01.eng.srt
       ShowS01E01 \o <<"0">> \o DotSrt,                        \* Show.S01E010.srt
       ShowS01E01 \o <<".","P","T",".","s","u","b">>,          \* Show.S01E01.PT.sub
       Eng \o DotSrt,                                          \* eng.srt
       Eng \o <<".">> \o Pt \o <<".","S","R","T">>,            \* eng.pt.SRT
       ShowS01E01 \o <<".","t","e","m","p">> \o DotSrt,        \* Show.S01E01.temp.srt
       ShowS01E01 \o <<".","n","f","o">> >>                    \* Show.S01E01.nfo

DirNameSet == { DirNames[k] : k \in 1..Len(DirNames) }

\* the videos a scan of the directory may return (full paths)
VideoNames ==
    { join(directory, ShowS01E01 \o <<".","m","k","v">>),      \* /d/Show.S01E01.mkv
      join(directory, Eng \o <<".","m","k","v">>),             \* /d/eng.mkv
      join(directory, <<"S","a","m","p","l","e",".","a","v","i">>) }  \* /d/Sample.avi

TargetLanguages == { Eng }
ReferenceLanguages == { Pt, Eng }
\* what the user types at the audio index prompt
AudioInputs == { <<>>, <<"0","1">> }

\* sequences without repetition of at most n elements of S
RECURSIVE SeqsUpTo(_, _)
SeqsUpTo(S, n) ==
    IF n = 0 THEN { <<>> }
    ELSE LET shorter == SeqsUpTo(S, n - 1)
         IN  shorter \cup
             { Append(q[1], q[2]) :
                 q \in { r \in shorter \X S :
                            Len(r[1]) = n - 1 /\ \A k \in 1..Len(r[1]) : r[1][k] # r[2] } }

\* the orders in which a listing may return the elements of S
Orders(S) == { q \in SeqsUpTo(S, Cardinality(S)) : Len(q) = Cardinality(S) }

\* s contains sub (the Python operator "in" on strings)
Contains(s, sub) ==
    \E k \in 0..(Len(s) - Len(sub)) : SubSeq(s, k + 1, k + Len(sub)) = sub

(***************************************************************************)
(* The synchronizer: subtitles-sync.py                                     *)
(***************************************************************************)
VARIABLES
    entries,            \* the directory: file name -> content
    old,                \* the old-subtitles subdirectory: file name -> content
    old_dir,            \* whether old-subtitles exists
    scanned,            \* what scan_videos returns, in its order
    target_language,
    reference_language,
    audio_index,        \* [given, value]: None, or the int typed at the prompt
    pc,                 \* "idle": no run under way, "loop": in the for loop
                        \* of process_files, "crashed": ended by an exception
    run,                \* number of runs started
    videos,             \* the videos process_files loops over
    subtitle_files,     \* the listing process_files took
    i,                  \* position of the for loop over videos
    last                \* what the last iteration of the loop did

syncvars == << entries, old, old_dir, scanned, target_language,
               reference_language, audio_index, pc, run,
               videos, subtitle_files, i, last >>

video_extensions == { <<".","m","p","4">>, <<".","m","k","v">>, <<".","a","v","i">> }
subtitle_extensions == { DotSrt, <<".","s","u","b">>, <<".","t","x","t">> }

\* line 116: the condition of the comprehension
NoSample(name) == ~Contains(Lower(name), <<"s","a","m","p","l","e">>)

no_sample == [ v \in VideoNames |-> NoSample(v) ]

\* line 116: the scanned videos that are no samples
not_sample(scan) ==
    LET Test(v) == no_sample[v]
    IN  SelectSeq(scan, Test)

\* line 120: the condition of the comprehension
IsSubtitleFile(f) == \E e \in subtitle_extensions : EndsWith(Lower(f), e)

is_subtitle_file == [ f \in DirNameSet |-> IsSubtitleFile(f) ]

\* line 120: the entries with a subtitle extension
subtitles_of(files) ==
    LET Test(f) == is_subtitle_file[f]
    IN  SelectSeq(files, Test)

\* line 132
video_basename(video_file) == splitext(basename(video_file))[1]

\* line 136: the condition of the comprehension
IsMatchLoose(s, vb) == StartsWith(splitext(s)[1], vb)
IsMatch(s, vb) ==
    \/ splitext(s)[1] = vb
    \/ StartsWith(splitext(s)[1], vb \o <<".">>)

\* the condition of line 136 for every entry and video of the model,
\* computed once
is_match == [ s \in DirNameSet, v \in VideoNames |-> IsMatch(s, video_basename(v)) ]

\* lines 134-137
matching_subtitles(video_file) ==
    LET Test(s) == is_match[s, video_file]
    IN  SelectSeq(subtitle_files, Test)

\* lines 142-143 and 149-150: the condition of the two search loops
HasLanguageCaseSensitive(s, language) ==
    LET parts == split(splitext(s)[1], ".")
    IN  Len(parts) > 1 /\ parts[Len(parts)] = language
HasLanguage(s, language) ==
    LET parts == split(splitext(s)[1], ".")
    IN  Len(parts) > 1 /\ Lower(parts[Len(parts)]) = Lower(language)

\* the condition of lines 143 and 150 for every entry and language of the
\* model, computed once
has_language ==
    [ s \in DirNameSet, l \in TargetLanguages \cup ReferenceLanguages |->
        HasLanguage(s, l) ]

\* lines 140-145 and 147-152: the first match of the loop, or None
find_language(matching, language) ==
    LET Test(s) == has_language[s, language]
        hits == SelectSeq(matching, Test)
    IN  IF hits = <<>> THEN None ELSE hits[1]

\* lines 35-36 and 72-73
temp_subtitle_name(subtitle_file) ==
    LET se == splitext(subtitle_file)
    IN  se[1] \o <<".","t","e","m","p">> \o se[2]

\* the temporary name of every entry of the model, computed once
temp_name == [ s \in DirNameSet |-> temp_subtitle_name(s) ]

Digits == <<"0","1","2","3","4","5","6","7","8","9">>
DigitValue(c) == (CHOOSE k \in 1..10 : Digits[k] = c) - 1

RECURSIVE int(_)
\* int(s) for a string of decimal digits
int(s) == IF s = <<>> THEN 0
          ELSE 10 * int(SubSeq(s, 1, Len(s) - 1)) + DigitValue(s[Len(s)])

RECURSIVE str(_)
\* str(n) for a natural number
str(n) == IF n < 10 THEN <<Digits[n + 1]>>
          ELSE str(n \div 10) \o <<Digits[(n % 10) + 1]>>

\* line 172: audio_index = int(audio_index) if audio_index else None
parse_audio_index(typed) ==
    IF typed = <<>> THEN [given |-> FALSE, value |-> 0]
    ELSE [given |-> TRUE, value |-> int(typed)]

(***************************************************************************)
(* File contents: text identifies the subtitle the file holds, enc its     *)
(* byte encoding ("raw": as found, "utf8": rewritten by the script), syncs *)
(* how many times the aligner has re-timed it.                             *)
(***************************************************************************)
NoContent == [text |-> 0, enc |-> "none", syncs |-> 0]

Without(f, k) == [x \in (DOMAIN f) \ {k} |-> f[x]]
Put(f, k, v) == [x \in (DOMAIN f) \cup {k} |-> IF x = k THEN v ELSE f[x]]

\* lines 19-26: ensure_utf8_encoding raises when the file is missing; it may
\* also raise when the detected encoding does not decode the bytes, which
\* the actions leave to the environment
utf8_must_raise(dir, name) == name \notin DOMAIN dir
\* lines 28-30: the file rewritten as UTF-8
ensure_utf8_encoding(dir, name) == Put(dir, name, [dir[name] EXCEPT !.enc = "utf8"])

\* what alass-cli writes to its output path when it exits with 0
aligner_output(content) == [content EXCEPT !.syncs = @ + 1]

Alass == <<"a","l","a","s","s","-","c","l","i">>
IndexFlag == <<"-","-","i","n","d","e","x">>

\* lines 49-52: the command of synchronize_subtitles_by_video
command_by_video(video_file, subtitle_file, index) ==
    <<Alass>>
    \o (IF index.given THEN <<IndexFlag, str(index.value)>> ELSE <<>>)
    \o << join(directory, video_file),
          join(directory, subtitle_file),
          join(directory, temp_name[subtitle_file]) >>

\* line 88: the command of synchronize_subtitles_by_reference
command_by_reference(subtitle_file_to_sync, reference_subtitle_file) ==
    << Alass,
       join(directory, reference_subtitle_file),
       join(directory, subtitle_file_to_sync),
       join(directory, temp_name[subtitle_file_to_sync]) >>

\* the decision with the reference file in the place of the target file
Decision_syncs_reference(video_file) ==
    LET matching == matching_subtitles(video_file)
        target == find_language(matching, target_language)
        reference == find_language(matching, reference_language)
    IN  IF reference # None /\ target # None
        THEN [ mode |-> "by_reference", file |-> reference, target |-> target,
               reference |-> reference,
               command |-> command_by_reference(reference, target) ]
        ELSE IF matching # <<>>
        THEN LET f == IF target = None THEN matching[1] ELSE target
             IN  [ mode |-> "by_video", file |-> f, target |-> target,
                   reference |-> reference,
                   command |-> command_by_video(video_file, f, audio_index) ]
        ELSE [ mode |-> "none", file |-> None, target |-> target,
               reference |-> reference, command |-> <<>> ]
\* lines 139-164: what process_files decides for one video
Decision(video_file) ==
    LET matching == matching_subtitles(video_file)
        target == find_language(matching, target_language)
        reference == find_language(matching, reference_language)
    IN  IF reference # None /\ target # None
        THEN [ mode |-> "by_reference", file |-> target, target |-> target,
               reference |-> reference,
               command |-> command_by_reference(target, reference) ]
        ELSE IF matching # <<>>
        THEN LET f == IF target = None THEN matching[1] ELSE target
             IN  [ mode |-> "by_video", file |-> f, target |-> target,
                   reference |-> reference,
                   command |-> command_by_video(video_file, f, audio_index) ]
        ELSE [ mode |-> "none", file |-> None, target |-> target,
               reference |-> reference, command |-> <<>> ]

(***************************************************************************)
(* The extractor's state: subtitles-extractor.py.  The synchronizer leaves *)
(* it alone, and the extractor leaves the synchronizer's state alone.      *)
(***************************************************************************)
VARIABLES
    ext_scanned,        \* what scan_videos returns to the extractor
    ext_files,          \* the files beside the videos: path -> how it got there
    language,           \* the --language argument
    ext_pc,             \* "idle", "collect", "unwinding", "raised", "done"
    ext_run,            \* number of runs of main started
    tasks,              \* the futures, in submission order
    results,            \* main's list of collected results
    summary             \* the rows of the summary table, once printed

extvars == << ext_scanned, ext_files, language, ext_pc, ext_run, tasks,
              results, summary >>

ExtIdle ==
    /\ ext_scanned = <<>>
    /\ ext_files = << >>
    /\ language = None
    /\ ext_pc = "idle"
    /\ ext_run = 0
    /\ tasks = <<>>
    /\ results = <<>>
    /\ summary = <<>>

(***************************************************************************)
(* The analyzer's state: media_tracks.py.  The other two scripts leave it  *)
(* alone.                                                                  *)
(***************************************************************************)
VARIABLES
    ana_pc,             \* "idle", "main", "probed", "exited"
    ana_file,           \* the file argument, None when there is none
    ana_probe,          \* how ffprobe ended in get_ffprobe_info
    ana_got,            \* what get_ffprobe_info did: raised, value, printed
    ana_printed,        \* what the run has printed, in order
    ana_exit,           \* main's return value, -1 before it returns
    ana_run             \* number of runs of main started

anavars == << ana_pc, ana_file, ana_probe, ana_got, ana_printed, ana_exit,
              ana_run >>

\* get_ffprobe_info has not been called
NotCalled == [ raised |-> FALSE, value |-> [ kind |-> "unset", streams |-> <<>> ],
               printed |-> <<>> ]

AnaIdle ==
    /\ ana_pc = "idle"
    /\ ana_file = None
    /\ ana_probe = "none"
    /\ ana_got = NotCalled
    /\ ana_printed = <<>>
    /\ ana_exit = -1
    /\ ana_run = 0

NoLast == [ video |-> None, mode |-> "none", file |-> None, target |-> None,
            reference |-> None, command |-> <<>>, outcome |-> "none",
            before |-> NoContent ]

\* what the iteration for videos[i] records, given its outcome
Handled(d, outcome) ==
    [ video |-> videos[i], mode |-> d.mode, file |-> d.file,
      target |-> d.target, reference |-> d.reference,
      command |-> IF outcome \in {"ok", "nonzero", "not_found"} THEN d.command ELSE <<>>,
      outcome |-> outcome,
      before |-> IF d.file \in DOMAIN entries THEN entries[d.file] ELSE NoContent ]

SyncInit ==
    /\ \E S \in SUBSET (1..Len(DirNames)) :
          /\ Cardinality(S) <= MaxFiles
          /\ entries = [ n \in { DirNames[k] : k \in S } |->
                          [ text |-> CHOOSE k \in S : DirNames[k] = n,
                            enc |-> "raw", syncs |-> 0 ] ]
    /\ old = [ n \in {} |-> NoContent ]
    /\ old_dir = FALSE
    /\ scanned \in SeqsUpTo(VideoNames, MaxVideos)
    /\ target_language = None
    /\ reference_language = None
    /\ audio_index = parse_audio_index(<<>>)
    /\ pc = "idle"
    /\ run = 0
    /\ videos = <<>>
    /\ subtitle_files = <<>>
    /\ i = 0
    /\ last = NoLast
    /\ ExtIdle
    /\ AnaIdle

\* lines 168-180 and 114-128: the user answers the prompts (a target
\* language is required, line 174); process_files lists the directory, keeps
\* the subtitle files and creates old-subtitles
StartRun ==
    /\ pc = "idle"
    /\ run < MaxRuns
    /\ target_language' \in TargetLanguages
    /\ reference_language' \in ReferenceLanguages
    /\ audio_index' \in { parse_audio_index(typed) : typed \in AudioInputs }
    /\ \E files \in Orders(DOMAIN entries) :
          subtitle_files' = subtitles_of(files)
    /\ videos' = not_sample(scanned)
    /\ old_dir' = TRUE
    /\ pc' = "loop"
    /\ run' = run + 1
    /\ i' = 1
    /\ last' = NoLast
    /\ UNCHANGED << entries, old, scanned >>
    /\ UNCHANGED extvars
    /\ UNCHANGED anavars

InLoop == pc = "loop" /\ i <= Len(videos)

\* lines 163-164: no candidate for the video
NoMatchingSubtitle ==
    /\ InLoop
    /\ LET d == Decision(videos[i])
       IN  /\ d.mode = "none"
           /\ last' = Handled(d, "no_match")
    /\ i' = i + 1
    /\ UNCHANGED << entries, old, old_dir, scanned, target_language,
                    reference_language, audio_index, pc, run, videos,
                    subtitle_files >>
    /\ UNCHANGED extvars
    /\ UNCHANGED anavars

\* lines 40-45 and 77-82: ensure_utf8_encoding raises (the file is gone, or
\* chardet or the decoding fails on its bytes), the function returns
EncodingError ==
    /\ InLoop
    /\ LET d == Decision(videos[i])
       IN  /\ d.mode # "none"
           /\ last' = Handled(d, "encoding_error")
    /\ i' = i + 1
    /\ UNCHANGED << entries, old, old_dir, scanned, target_language,
                    reference_language, audio_index, pc, run, videos,
                    subtitle_files >>
    /\ UNCHANGED extvars
    /\ UNCHANGED anavars

\* lines 54 and 89: alass-cli is not on the path; subprocess.run raises
\* FileNotFoundError, which neither function nor process_files catches
AlignerNotFound ==
    /\ InLoop
    /\ LET d == Decision(videos[i])
       IN  /\ d.mode # "none"
           /\ ~utf8_must_raise(entries, d.file)
           /\ entries' = ensure_utf8_encoding(entries, d.file)
           /\ last' = Handled(d, "not_found")
    /\ pc' = "crashed"
    /\ UNCHANGED << old, old_dir, scanned, target_language, reference_language,
                    audio_index, run, videos, subtitle_files, i >>
    /\ UNCHANGED extvars
    /\ UNCHANGED anavars

\* lines 65-66 and 100-101: the temporary path is removed if it exists
remove_temp_keeps(dir, subtitle_file) == dir
remove_temp(dir, subtitle_file) == Without(dir, temp_name[subtitle_file])

\* lines 63-66 and 98-101: alass-cli exits non-zero; whatever is at the
\* temporary path is removed
AlignerFails ==
    /\ InLoop
    /\ LET d == Decision(videos[i])
       IN  /\ d.mode # "none"
           /\ ~utf8_must_raise(entries, d.file)
           /\ entries' = remove_temp(ensure_utf8_encoding(entries, d.file), d.file)
           /\ last' = Handled(d, "nonzero")
    /\ i' = i + 1
    /\ UNCHANGED << old, old_dir, scanned, target_language, reference_language,
                    audio_index, pc, run, videos, subtitle_files >>
    /\ UNCHANGED extvars
    /\ UNCHANGED anavars

\* line 54 / 89: alass-cli exits 0 having written its output path
alass_writes(dir, input, output) == Put(dir, output, aligner_output(dir[input]))

\* lines 59 and 94: shutil.move(input_subtitle_path, old_subtitle_path),
\* which replaces a file already at the destination
backup_move(olddir, name, content) == Put(olddir, name, content)

\* lines 62 and 97: shutil.move(temp_subtitle_path, input_subtitle_path)
\* within the directory
move(dir, src, dst) ==
    [ x \in ((DOMAIN dir) \ {src}) \cup {dst} |->
        IF x = dst THEN dir[src] ELSE dir[x] ]

synced_directory_copies(dir, subtitle_file) ==
    Put(alass_writes(dir, subtitle_file, temp_name[subtitle_file]),
        subtitle_file,
        aligner_output(dir[subtitle_file]))

\* lines 54-62 and 89-97: the directory after a successful alignment of
\* subtitle_file: the aligner writes the temporary path, the subtitle
\* leaves for old-subtitles, the temporary file takes its path
synced_directory(dir, subtitle_file) ==
    move(Without(alass_writes(dir, subtitle_file, temp_name[subtitle_file]),
                 subtitle_file),
         temp_name[subtitle_file], subtitle_file)

AlignerSucceeds ==
    /\ InLoop
    /\ LET d == Decision(videos[i])
       IN  /\ d.mode # "none"
           /\ ~utf8_must_raise(entries, d.file)
           /\ d.mode = "by_reference" => d.reference \in DOMAIN entries
           /\ old' = backup_move(old, d.file,
                                 ensure_utf8_encoding(entries, d.file)[d.file])
           /\ entries' = synced_directory(ensure_utf8_encoding(entries, d.file),
                                          d.file)
           /\ last' = Handled(d, "ok")
    /\ i' = i + 1
    /\ UNCHANGED << old_dir, scanned, target_language, reference_language,
                    audio_index, pc, run, videos, subtitle_files >>
    /\ UNCHANGED extvars
    /\ UNCHANGED anavars

\* the for loop of process_files ends, and with it the process
FinishRun ==
    /\ pc = "loop"
    /\ i > Len(videos)
    /\ pc' = "idle"
    /\ target_language' = None
    /\ reference_language' = None
    /\ audio_index' = parse_audio_index(<<>>)
    /\ videos' = <<>>
    /\ subtitle_files' = <<>>
    /\ i' = 0
    /\ last' = NoLast
    /\ UNCHANGED << entries, old, old_dir, scanned, run >>
    /\ UNCHANGED extvars
    /\ UNCHANGED anavars

SyncNext ==
    \/ StartRun
    \/ NoMatchingSubtitle
    \/ EncodingError
    \/ AlignerNotFound
    \/ AlignerFails
    \/ AlignerSucceeds
    \/ FinishRun

vars == << syncvars, extvars, anavars >>

(***************************************************************************)
(* Claims about the synchronizer.                                          *)
(***************************************************************************)
Max(S) == CHOOSE m \in S : \A x \in S : x <= m
Min(S) == CHOOSE m \in S : \A x \in S : m <= x
DotsOf(name) == { k \in 1..Len(name) : name[k] = "." }

\* a name without its last extension, and that extension
ClaimStem(name) ==
    IF DotsOf(name) = {} THEN name ELSE SubSeq(name, 1, Max(DotsOf(name)) - 1)
ClaimExt(name) ==
    IF DotsOf(name) = {} THEN <<>> ELSE SubSeq(name, Max(DotsOf(name)), Len(name))
\* the name of a path: what follows its last "/"
ClaimName(path) ==
    LET slashes == { k \in 1..Len(path) : path[k] = "/" }
    IN  IF slashes = {} THEN path ELSE SubSeq(path, Max(slashes) + 1, Len(path))
\* the last dot-separated segment of a stem
ClaimLastSegment(stem) ==
    IF DotsOf(stem) = {} THEN stem ELSE SubSeq(stem, Max(DotsOf(stem)) + 1, Len(stem))
\* "<stem>.temp<ext>"
ClaimTemp(name) == ClaimStem(name) \o <<".","t","e","m","p">> \o ClaimExt(name)
ClaimPath(name) == directory \o <<"/">> \o name
SameIgnoringCase(a, b) ==
    /\ Len(a) = Len(b)
    /\ \A k \in 1..Len(a) : LowerChar(a[k]) = LowerChar(b[k])

\* the stem equals the video's stem or is the video's stem, a dot, and more
ClaimCandidate ==
    [ s \in DirNameSet, v \in VideoNames |->
        LET stem == ClaimStem(s)
            vstem == ClaimStem(ClaimName(v))
        IN  \/ stem = vstem
            \/ \E rest \in 0..Len(stem) :
                  /\ Len(stem) = Len(vstem) + 1 + rest
                  /\ SubSeq(stem, 1, Len(vstem) + 1) = vstem \o <<".">> ]

IsCandidate(video_file, s) ==
    \E k \in 1..Len(matching_subtitles(video_file)) :
        matching_subtitles(video_file)[k] = s

\* C1: while process_files loops, for every video of the loop and every
\* listed entry with a subtitle extension, the entry is among the video's
\* match candidates exactly when its stem equals the video's stem or starts
\* with the video's stem followed by a dot; for Show.S01E01 the stems
\* Show.S01E01 and Show.S01E01.eng match and Show.S01E010 does not.
C1_CandidateIffStemMatch ==
    pc = "loop" =>
        /\ \A k \in 1..Len(videos) : \A j \in 1..Len(subtitle_files) :
              IsCandidate(videos[k], subtitle_files[j])
                  <=> ClaimCandidate[subtitle_files[j], videos[k]]
        /\ \A k \in 1..Len(videos) : \A j \in 1..Len(subtitle_files) :
              ClaimStem(ClaimName(videos[k])) = ShowS01E01 =>
                  /\ subtitle_files[j] \in { DirNames[1], DirNames[2] }
                        => IsCandidate(videos[k], subtitle_files[j])
                  /\ subtitle_files[j] = DirNames[3]
                        => ~IsCandidate(videos[k], subtitle_files[j])

\* C1 witness: the loop runs over Show.S01E01.mkv with Show.S01E01.eng.srt
\* and Show.S01E010.srt listed
C1_Witness ==
    /\ pc = "loop"
    /\ \E k \in 1..Len(videos) : ClaimStem(ClaimName(videos[k])) = ShowS01E01
    /\ \E j \in 1..Len(subtitle_files) : subtitle_files[j] = DirNames[2]
    /\ \E j \in 1..Len(subtitle_files) : subtitle_files[j] = DirNames[3]

\* the last segment of the stem equals the language ignoring case
ClaimLanguageAnyStem ==
    [ s \in DirNameSet, l \in TargetLanguages \cup ReferenceLanguages |->
        SameIgnoringCase(ClaimLastSegment(ClaimStem(s)), l) ]
\* the same, for stems of at least two dot-separated segments
ClaimLanguageDottedStem ==
    [ s \in DirNameSet, l \in TargetLanguages \cup ReferenceLanguages |->
        /\ DotsOf(ClaimStem(s)) # {}
        /\ SameIgnoringCase(ClaimLastSegment(ClaimStem(s)), l) ]

\* the first candidate of cands that the table gives the language, or None
ClaimFirst(cands, table, l) ==
    IF \E k \in 1..Len(cands) : table[cands[k], l]
    THEN cands[Min({ k \in 1..Len(cands) : table[cands[k], l] })]
    ELSE None

\* the file and the aligner command the selection policy asks for
ClaimSelection(video_file, table) ==
    LET cands == matching_subtitles(video_file)
        T == ClaimFirst(cands, table, target_language)
        R == ClaimFirst(cands, table, reference_language)
        S == IF T # None THEN T ELSE cands[1]
    IN  IF T # None /\ R # None
        THEN [ file |-> T,
               command |-> << Alass, ClaimPath(R), ClaimPath(T),
                              ClaimPath(ClaimTemp(T)) >> ]
        ELSE IF cands # <<>>
        THEN [ file |-> S,
               command |-> <<Alass>>
                   \o (IF audio_index.given
                       THEN <<IndexFlag, str(audio_index.value)>> ELSE <<>>)
                   \o << video_file, ClaimPath(S), ClaimPath(ClaimTemp(S)) >> ]
        ELSE [ file |-> None, command |-> <<>> ]

\* C2 as stated: after a video is handled, the aligner was called as the
\* selection policy asks, the language of a candidate being the last
\* dot-separated segment of its stem: with (reference, target, output) when
\* both are found, else with the video and the target or first candidate,
\* and not at all when there is no candidate.
C2_Original_AlignerCalledAsSelected ==
    last.outcome # "none" =>
        last.command = ClaimSelection(last.video, ClaimLanguageAnyStem).command

\* C2 amended: the same with two changes: only a stem of at least two
\* dot-separated segments carries a language, and the aligner is called
\* only when rewriting the selected file as UTF-8 did not fail.
C2_Amended_AlignerCalledAsSelected ==
    last.outcome # "none" =>
        LET sel == ClaimSelection(last.video, ClaimLanguageDottedStem)
        IN  /\ last.file = sel.file
            /\ last.command =
                  IF last.outcome = "encoding_error" THEN <<>> ELSE sel.command

\* C2 witness: a video was synchronized against a reference file found by
\* its upper-case language tag
C2_Witness ==
    /\ last.outcome = "ok"
    /\ last.mode = "by_reference"
    /\ last.reference = DirNames[4]
    /\ last.file # last.reference

\* C3: after the aligner exits successfully for subtitle file S, the
\* subtitle as it was before the alignment (re-encoded as UTF-8) is in
\* old-subtitles under the name of S, the aligned output is at the path of
\* S, and no "<stem>.temp<ext>" is left in the directory.
C3_SuccessBacksUpAndReplaces ==
    last.outcome = "ok" =>
        /\ last.file \in DOMAIN old
        /\ old[last.file] = [ last.before EXCEPT !.enc = "utf8" ]
        /\ last.file \in DOMAIN entries
        /\ entries[last.file] = [ text |-> last.before.text, enc |-> "utf8",
                                  syncs |-> last.before.syncs + 1 ]
        /\ ClaimTemp(last.file) \notin DOMAIN entries

\* C3 witness: Show.S01E01.srt was aligned while Show.S01E01.temp.srt was
\* listed in the directory
C3_Witness ==
    /\ last.outcome = "ok"
    /\ last.file = DirNames[1]
    /\ \E j \in 1..Len(subtitle_files) : subtitle_files[j] = DirNames[7]

\* C4: old-subtitles is append-only: a step never removes a backup nor
\* replaces its contents.
C4_BackupsAppendOnly ==
    [][ \A n \in DOMAIN old : n \in DOMAIN old' /\ old'[n] = old[n] ]_vars

\* C5: when the aligner exits non-zero for subtitle file S, the loop goes
\* on, no "<stem>.temp<ext>" is left, S is still at its path with its text
\* and timing, and old-subtitles is unchanged.
C5_FailureCleansUp ==
    [][ (i' = i + 1 /\ last'.outcome = "nonzero") =>
            /\ pc' = "loop"
            /\ ClaimTemp(last'.file) \notin DOMAIN entries'
            /\ last'.file \in DOMAIN entries'
            /\ entries'[last'.file] = [ entries[last'.file] EXCEPT !.enc = "utf8" ]
            /\ old' = old ]_vars

\* C5 witness: the aligner failed on Show.S01E01.srt while
\* Show.S01E01.temp.srt was listed, and only Show.S01E01.srt remains
C5_Witness ==
    /\ last.outcome = "nonzero"
    /\ last.file = DirNames[1]
    /\ \E j \in 1..Len(subtitle_files) : subtitle_files[j] = DirNames[7]
    /\ DOMAIN entries = { DirNames[1] }

\* C6: no failure while handling one video aborts the batch: a run never
\* ends with a video after the failing one left unhandled.
C6_NoFailureAbortsBatch ==
    pc = "crashed" => i = Len(videos)

\* the reference-language file of the video about to be handled, or None
ClaimReference ==
    ClaimFirst(matching_subtitles(videos[i]), ClaimLanguageDottedStem,
               reference_language)

\* the file the selection policy picks for the video about to be handled
ClaimSelected == ClaimSelection(videos[i], ClaimLanguageDottedStem).file

\* this step handles videos[i]
ClaimHandles == pc = "loop" /\ i <= Len(videos) /\ last' # last

\* the file is the same in the directory and in old-subtitles after the step
ClaimUntouched(f) ==
    /\ f \in DOMAIN entries <=> f \in DOMAIN entries'
    /\ f \in DOMAIN entries => entries'[f] = entries[f]
    /\ f \in DOMAIN old <=> f \in DOMAIN old'
    /\ f \in DOMAIN old => old'[f] = old[f]

\* C16 as stated: while a video is handled, the reference-language file
\* found for it is left unchanged: it is not rewritten as UTF-8, not
\* replaced by the aligner's output and not moved into old-subtitles
C16_Original_ReferenceUnchanged ==
    [][ ClaimHandles /\ ClaimReference # None
        => ClaimUntouched(ClaimReference) ]_vars

\* C16 amended: the reference-language file found for a video is left
\* unchanged while the video is handled whenever the file selected for
\* synchronization is another file and the reference file is not at that
\* file's temporary path
C16_Amended_ReferenceUnchanged ==
    [][ /\ ClaimHandles
        /\ ClaimReference # None
        /\ ClaimSelected # ClaimReference
        /\ ClaimTemp(ClaimSelected) # ClaimReference
        => ClaimUntouched(ClaimReference) ]_vars

\* a target file was synchronized against a reference file, which is still
\* in the directory as it was found and has no backup
C16_Witness ==
    /\ last.outcome = "ok"
    /\ last.mode = "by_reference"
    /\ last.file # last.reference
    /\ last.reference \in DOMAIN entries
    /\ entries[last.reference].enc = "raw"
    /\ entries[last.reference].syncs = 0
    /\ last.reference \notin DOMAIN old
    /\ last.file \in DOMAIN old

(***************************************************************************)
(* The extractor: subtitles-extractor.py                                   *)
(***************************************************************************)
\* largest number of videos the scan returns to the extractor
MaxExtVideos == 2
\* largest number of subtitle streams the prober reports for a video
MaxStreams == 2
\* largest number of subtitle files beside the videos before the first run
MaxExtFiles == 2
\* largest number of runs of the extractor over the same directory
MaxExtRuns == 1

Movie == <<"m","o","v","i","e">>
EngUpper == <<"E","N","G">>
Unknown == <<"u","n","k","n","o","w","n">>
Subrip == <<"s","u","b","r","i","p">>
Pgs == <<"h","d","m","v","_","p","g","s","_","s","u","b","t","i","t","l","e">>
Ass == <<"a","s","s">>
MovText == <<"m","o","v","_","t","e","x","t">>
DotSup == <<".","s","u","p">>
DotAss == <<".","a","s","s">>

\* the videos a scan of the extractor's directory may return
ExtVideoNames ==
    { join(directory, Movie \o <<".","m","k","v">>),            \* /d/movie.mkv
      join(directory, Movie \o <<".","a","v","i">>),            \* /d/movie.avi
      join(directory, <<"s","a","m","p","l","e",".","m","p","4">>) }  \* /d/sample.mp4

ExtLanguages == { Eng, EngUpper }

\* the subtitle streams a video may hold, as the prober reports them:
\* language tag (None when the stream has none) and codec name
StreamKinds ==
    { [language |-> Eng, codec_name |-> Pgs],
      [language |-> Eng, codec_name |-> Subrip],
      [language |-> Eng, codec_name |-> Ass],
      [language |-> Eng, codec_name |-> MovText],
      [language |-> EngUpper, codec_name |-> Ass] }

RECURSIVE ListsUpTo(_, _)
\* sequences of at most n elements of S
ListsUpTo(S, n) ==
    IF n = 0 THEN { <<>> }
    ELSE LET shorter == ListsUpTo(S, n - 1)
         IN  shorter \cup
             { Append(q[1], q[2]) : q \in { r \in shorter \X S : Len(r[1]) = n - 1 } }

StreamLists == ListsUpTo(StreamKinds, MaxStreams)

\* the stream index of the k-th subtitle stream of a file whose subtitle
\* streams alternate with others after a video and an audio stream
StreamIndex(k) == 2 * k + 2

\* the subtitle files that may lie beside the videos before the first run
ExtFileNames ==
    { join(directory, Movie \o <<".">> \o Eng \o DotSrt),       \* /d/movie.eng.srt
      join(directory, Movie \o <<".">> \o Eng \o DotSup),       \* /d/movie.eng.sup
      join(directory, Movie \o <<".">> \o Eng \o DotAss) }      \* /d/movie.eng.ass

\* lines 14-24
FORMAT_TO_EXTENSION ==
    [ c \in { <<"s","r","t">>, Ass, <<"s","s","a">>,
              <<"m","i","c","r","o","d","v","d">>, <<"m","p","l","2">>,
              <<"t","m","p">>, <<"v","t","t">>, Pgs,
              <<"d","v","d","_","s","u","b","t","i","t","l","e">> } |->
        CASE c = <<"s","r","t">> -> DotSrt
          [] c = Ass -> DotAss
          [] c = <<"s","s","a">> -> <<".","s","s","a">>
          [] c = <<"m","i","c","r","o","d","v","d">> -> <<".","s","u","b">>
          [] c = <<"m","p","l","2">> -> <<".","m","p","l">>
          [] c = <<"t","m","p">> -> <<".","t","x","t">>
          [] c = <<"v","t","t">> -> <<".","v","t","t">>
          [] c = Pgs -> DotSup
          [] c = <<"d","v","d","_","s","u","b","t","i","t","l","e">> -> <<".","s","u","b">> ]

\* dict.get(key, default)
get(dict, key, default) == IF key \in DOMAIN dict THEN dict[key] ELSE default

NoTrack == [ index |-> -1, index_position |-> -1, language |-> None,
             codec_name |-> None ]

\* the tracks with the global stream index in the place of the position
tracks_of_global_index(streams) ==
    [ k \in 1..Len(streams) |->
        [ index |-> StreamIndex(k),
          index_position |-> StreamIndex(k),
          language |-> IF streams[k].language = None THEN Unknown
                       ELSE streams[k].language,
          codec_name |-> streams[k].codec_name ] ]
\* lines 41-58: the tracks built from the streams of the prober's output
tracks_of(streams) ==
    [ k \in 1..Len(streams) |->
        [ index |-> StreamIndex(k),
          index_position |-> k - 1,
          language |-> IF streams[k].language = None THEN Unknown
                       ELSE streams[k].language,
          codec_name |-> streams[k].codec_name ] ]

\* lines 26-64: list_subtitle_tracks, given whether the video is a file,
\* how ffprobe ends ("ok", "nonzero", "bad_json", "not_found") and the
\* streams it reports
list_subtitle_tracks(video_file, isfile, probe, streams) ==
    IF ~isfile
    THEN [ raised |-> FALSE, tracks |-> <<>>, calls |-> <<>> ]
    ELSE LET call == [ tool |-> "ffprobe", op |-> "probe", input |-> video_file,
                       output |-> None, map |-> -1 ]
         IN  IF probe = "not_found"
             THEN [ raised |-> TRUE, tracks |-> <<>>, calls |-> <<call>> ]
             ELSE IF probe = "ok"
             THEN [ raised |-> FALSE, tracks |-> tracks_of(streams),
                    calls |-> <<call>> ]
             ELSE [ raised |-> FALSE, tracks |-> <<>>, calls |-> <<call>> ]

\* lines 99-105
subtitle_track_selection_ignoring_case(trks, lang) ==
    LET Test(track) == Lower(track.language) = Lower(lang)
        matching_tracks == SelectSeq(trks, Test)
    IN  IF matching_tracks = <<>> THEN NoTrack ELSE matching_tracks[1]
subtitle_track_selection(trks, lang) ==
    LET Test(track) == track.language = lang
        matching_tracks == SelectSeq(trks, Test)
    IN  IF matching_tracks = <<>> THEN NoTrack ELSE matching_tracks[1]

\* line 139
extension_of(codec_name) == get(FORMAT_TO_EXTENSION, Lower(codec_name), DotSrt)

\* lines 146-150
subtitle_file_original_of(video_filepath, track_language, extension) ==
    join(dirname(video_filepath),
         splitext(basename(video_filepath))[1] \o <<".">> \o track_language
             \o extension)

\* lines 152-155
subtitle_file_srt_without_language(video_filepath, track_language) ==
    join(dirname(video_filepath),
         splitext(basename(video_filepath))[1] \o DotSrt)
subtitle_file_srt_of(video_filepath, track_language) ==
    join(dirname(video_filepath),
         splitext(basename(video_filepath))[1] \o <<".">> \o track_language
             \o DotSrt)

TrackLanguages == { k.language : k \in StreamKinds }
CodecNames == { k.codec_name : k \in StreamKinds }

\* the two paths for every video, language and codec of the model,
\* computed once
original_path ==
    [ v \in ExtVideoNames, l \in TrackLanguages, c \in CodecNames |->
        subtitle_file_original_of(v, l, extension_of(c)) ]
srt_path ==
    [ v \in ExtVideoNames, l \in TrackLanguages |-> subtitle_file_srt_of(v, l) ]

\* line 85-86: whether convert_subtitle_to_srt hands the file to the OCR tool
is_sup(input_file) == Lower(splitext(input_file)[2]) = DotSup

uses_ocr ==
    [ v \in ExtVideoNames, l \in TrackLanguages, c \in CodecNames |->
        is_sup(original_path[v, l, c]) ]

\* line 182
needs_conversion == [ c \in CodecNames |-> Lower(c) # Subrip ]

\* lines 109-116 and the assignments to result that follow
Result(video_filepath, track, status, message, original, srt) ==
    [ video_filepath |-> video_filepath, track |-> track, status |-> status,
      message |-> message, subtitle_file_original |-> original,
      subtitle_file_srt |-> srt ]

Returned(result, files, calls) ==
    [ raised |-> FALSE, result |-> result, files |-> files, calls |-> calls ]

\* lines 66-75: the command of extract_subtitle
demux_call(video_file, stream_index_position, output_file) ==
    [ tool |-> "ffmpeg", op |-> "demux", input |-> video_file,
      output |-> output_file, map |-> stream_index_position ]

\* lines 84-97: the command of convert_subtitle_to_srt
convert_call(video_filepath, track) ==
    IF uses_ocr[video_filepath, track.language, track.codec_name]
    THEN [ tool |-> "SubtitleEdit", op |-> "ocr",
           input |-> original_path[video_filepath, track.language, track.codec_name],
           output |-> srt_path[video_filepath, track.language], map |-> -1 ]
    ELSE [ tool |-> "ffmpeg", op |-> "convert",
           input |-> original_path[video_filepath, track.language, track.codec_name],
           output |-> srt_path[video_filepath, track.language], map |-> -1 ]

\* lines 181-196: the conversion step, given the files, calls, status and
\* message the extraction step left and how the conversion tool ends ("ok",
\* "nonzero", "nonzero_partial": non-zero with an output file left behind,
\* "not_found")
convert_step(video_filepath, track, files, calls, status, message, convert) ==
    LET original == original_path[video_filepath, track.language, track.codec_name]
        srt == srt_path[video_filepath, track.language]
    IN  IF needs_conversion[track.codec_name]
        THEN IF convert = "ok"
             THEN Returned(Result(video_filepath, track, "converted",
                                  "Converted to SRT", original, srt),
                           Put(files, srt, "converted"),
                           Append(calls, convert_call(video_filepath, track)))
             ELSE Returned(Result(video_filepath, track, "error",
                                  "Conversion failed", original, srt),
                           IF convert = "nonzero_partial"
                           THEN Put(files, srt, "partial") ELSE files,
                           Append(calls, convert_call(video_filepath, track)))
        ELSE Returned(Result(video_filepath, track, "already_srt",
                             "Already SRT", original, srt),
                      files, calls)

\* lines 170-196: the extraction step and what follows it, given how the
\* transcoder ends when it demuxes
demux_step(video_filepath, track, files, calls, extract, convert) ==
    LET original == original_path[video_filepath, track.language, track.codec_name]
        srt == srt_path[video_filepath, track.language]
        call == demux_call(video_filepath, track.index_position, original)
    IN  IF extract = "ok"
        THEN convert_step(video_filepath, track, Put(files, original, "demuxed"),
                          Append(calls, call), "extracted", "Extracted to",
                          convert)
        ELSE Returned(Result(video_filepath, track, "error",
                             "Extraction failed", original, srt),
                      IF extract = "nonzero_partial"
                      THEN Put(files, original, "partial") ELSE files,
                      Append(calls, call))
\* the same without the check of the original path
extract_step_always(video_filepath, track, files, calls, extract, convert) ==
    demux_step(video_filepath, track, files, calls, extract, convert)
\* lines 166-196: the check of the original path, the extraction step and
\* what follows it
extract_step(video_filepath, track, files, calls, extract, convert) ==
    LET original == original_path[video_filepath, track.language, track.codec_name]
    IN  IF original \in DOMAIN files
        THEN convert_step(video_filepath, track, files, calls,
                          "already_extracted", "Subtitle file exists", convert)
        ELSE demux_step(video_filepath, track, files, calls, extract, convert)

\* lines 128-164: from the track selection to the check of the SRT path
select_step(video_filepath, lang, trks, files, calls, extract, convert) ==
    LET track == subtitle_track_selection(trks, lang)
    IN  IF track = NoTrack
        THEN Returned(Result(video_filepath, NoTrack, "no_lang_track",
                             "No track for language", None, None),
                      files, calls)
        ELSE IF extension_of(track.codec_name) = <<>>
        THEN Returned(Result(video_filepath, track, "unsupported_subtitle_format",
                             "Unsupported subtitle format", None, None),
                      files, calls)
        ELSE IF srt_path[video_filepath, track.language] \in DOMAIN files
        THEN Returned(Result(video_filepath, track, "srt_exists", "SRT exists",
                             original_path[video_filepath, track.language,
                                           track.codec_name],
                             srt_path[video_filepath, track.language]),
                      files, calls)
        ELSE extract_step(video_filepath, track, files, calls, extract, convert)

NoResult == Result(None, NoTrack, "None", "None", None, None)

\* lines 107-196: process_video_file on the files beside the videos, given
\* what the environment does: whether the video is still a file, how the
\* prober ends and the streams it reports, how the demux and the conversion
\* end.  raised: the call ends with an exception instead of a result
process_video_file(video_filepath, lang, files, isfile, probe, streams, extract, convert) ==
    LET listed == list_subtitle_tracks(video_filepath, isfile, probe, streams)
    IN  IF listed.raised
        THEN [ raised |-> TRUE, result |-> NoResult, files |-> files,
               calls |-> listed.calls ]
        ELSE IF listed.tracks = <<>>
        THEN Returned(Result(video_filepath, NoTrack, "no_tracks",
                             "No subtitle tracks found", None, None),
                      files, listed.calls)
        ELSE select_step(video_filepath, lang, listed.tracks, files,
                         listed.calls, extract, convert)

ProbeOutcomes == { "ok", "nonzero", "bad_json", "not_found" }
ToolOutcomes == { "ok", "nonzero", "nonzero_partial", "not_found" }

\* what the environment may do during one call of process_video_file,
\* before any tool other than the prober runs
Environments ==
    { [ isfile |-> FALSE, probe |-> "ok", streams |-> <<>> ] }
    \cup { [ isfile |-> TRUE, probe |-> p, streams |-> <<>> ] :
             p \in ProbeOutcomes \ {"ok"} }
    \cup [ isfile : {TRUE}, probe : {"ok"}, streams : StreamLists ]

\* the operations of the calls of a returned value
OpsOf(r) == { r.calls[j].op : j \in 1..Len(r.calls) }

\* how the demux may end in an environment: a tool that is not called has
\* no outcome
ExtractOutcomes(if_all_ok) ==
    IF "demux" \in OpsOf(if_all_ok) THEN ToolOutcomes ELSE {"ok"}

\* how the conversion may end, given how the demux ended
ConvertOutcomes(if_all_ok, extract) ==
    IF extract = "ok" /\ OpsOf(if_all_ok) \cap {"convert", "ocr"} # {}
    THEN ToolOutcomes ELSE {"ok"}

\* every way one call of process_video_file may go on the given files:
\* the environment, how the demux and the conversion end where they run,
\* and what the call returns
Runs(video_filepath, lang, files) ==
    UNION { UNION { { [ env |-> e, extract |-> x, convert |-> c,
                        r |-> process_video_file(video_filepath, lang, files,
                                  e.isfile, e.probe, e.streams, x, c) ] :
                      c \in ConvertOutcomes(
                               process_video_file(video_filepath, lang, files,
                                   e.isfile, e.probe, e.streams, "ok", "ok"), x) } :
                    x \in ExtractOutcomes(
                             process_video_file(video_filepath, lang, files,
                                 e.isfile, e.probe, e.streams, "ok", "ok")) } :
            e \in Environments }

NoTask == [ state |-> "pending", result |-> NoResult, calls |-> <<>>,
            collected |-> FALSE ]

SyncIdle ==
    /\ entries = [ n \in {} |-> NoContent ]
    /\ old = [ n \in {} |-> NoContent ]
    /\ old_dir = FALSE
    /\ scanned = <<>>
    /\ target_language = None
    /\ reference_language = None
    /\ audio_index = parse_audio_index(<<>>)
    /\ pc = "idle"
    /\ run = 0
    /\ videos = <<>>
    /\ subtitle_files = <<>>
    /\ i = 0
    /\ last = NoLast

ExtInit ==
    /\ ext_scanned \in SeqsUpTo(ExtVideoNames, MaxExtVideos)
    /\ \E S \in SUBSET ExtFileNames :
          /\ Cardinality(S) <= MaxExtFiles
          /\ ext_files = [ f \in S |-> "found" ]
    /\ language = None
    /\ ext_pc = "idle"
    /\ ext_run = 0
    /\ tasks = <<>>
    /\ results = <<>>
    /\ summary = <<>>
    /\ SyncIdle
    /\ AnaIdle

\* line 217: the condition of the comprehension (case-sensitive)
ExtNoSample(name) == ~Contains(name, <<"s","a","m","p","l","e">>)

ext_no_sample == [ v \in ExtVideoNames |-> ExtNoSample(v) ]

\* line 217
videos_filepaths ==
    LET Test(v) == ext_no_sample[v]
    IN  SelectSeq(ext_scanned, Test)

\* lines 198-226: main parses its arguments, scans the folder and submits
\* one task per video to the pool
ExtStart ==
    /\ ext_pc \in {"idle", "done"}
    /\ ext_run < MaxExtRuns
    /\ videos_filepaths # <<>>
    /\ language' \in ExtLanguages
    /\ ext_run' = ext_run + 1
    /\ tasks' = [ k \in 1..Len(videos_filepaths) |-> NoTask ]
    /\ results' = <<>>
    /\ summary' = <<>>
    /\ ext_pc' = "collect"
    /\ UNCHANGED << ext_scanned, ext_files >>
    /\ UNCHANGED syncvars
    /\ UNCHANGED anavars

\* lines 218-220: no video found, main returns
ExtNoVideos ==
    /\ ext_pc \in {"idle", "done"}
    /\ ext_run < MaxExtRuns
    /\ videos_filepaths = <<>>
    /\ language' \in ExtLanguages
    /\ ext_run' = ext_run + 1
    /\ tasks' = <<>>
    /\ results' = <<>>
    /\ summary' = <<>>
    /\ ext_pc' = "idle"
    /\ UNCHANGED << ext_scanned, ext_files >>
    /\ UNCHANGED syncvars
    /\ UNCHANGED anavars

max_workers == 1

\* the pool's workers take the tasks in submission order; a task runs
\* process_video_file (line 226) and completes its future
RunTask ==
    /\ ext_pc \in {"collect", "unwinding"}
    /\ \E k \in 1..Len(tasks) :
          /\ tasks[k].state = "pending"
          /\ \A j \in 1..(k - 1) : tasks[j].state # "pending"
          /\ \E way \in Runs(videos_filepaths[k], language, ext_files) :
                /\ tasks' = [ tasks EXCEPT ![k] =
                                [ state |-> IF way.r.raised THEN "raised" ELSE "done",
                                  result |-> way.r.result,
                                  calls |-> way.r.calls,
                                  collected |-> FALSE ] ]
                /\ ext_files' = way.r.files
    /\ UNCHANGED << ext_scanned, language, ext_pc, ext_run, results, summary >>
    /\ UNCHANGED syncvars
    /\ UNCHANGED anavars

\* lines 227-229: as_completed yields a completed future and its result is
\* appended
Collect ==
    /\ ext_pc = "collect"
    /\ \E k \in 1..Len(tasks) :
          /\ tasks[k].state = "done"
          /\ ~tasks[k].collected
          /\ tasks' = [ tasks EXCEPT ![k].collected = TRUE ]
          /\ results' = Append(results, tasks[k].result)
    /\ UNCHANGED << ext_scanned, ext_files, language, ext_pc, ext_run, summary >>
    /\ UNCHANGED syncvars
    /\ UNCHANGED anavars

\* line 228: future.result() re-raises the exception of a task; main
\* leaves the with block, whose exit waits for the tasks still to run
CollectRaises ==
    /\ ext_pc = "collect"
    /\ \E k \in 1..Len(tasks) :
          /\ tasks[k].state = "raised"
          /\ ~tasks[k].collected
          /\ tasks' = [ tasks EXCEPT ![k].collected = TRUE ]
    /\ ext_pc' = "unwinding"
    /\ UNCHANGED << ext_scanned, ext_files, language, ext_run, results, summary >>
    /\ UNCHANGED syncvars
    /\ UNCHANGED anavars

\* the exception ends main at once, whatever is still pending
Abort_cancelling ==
    /\ ext_pc = "unwinding"
    /\ ext_pc' = "raised"
    /\ UNCHANGED << ext_scanned, ext_files, language, ext_run, tasks, results,
                    summary >>
    /\ UNCHANGED syncvars
    /\ UNCHANGED anavars
\* the with block is left once no task is pending; the exception ends main
\* before the summary
Abort ==
    /\ ext_pc = "unwinding"
    /\ \A k \in 1..Len(tasks) : tasks[k].state # "pending"
    /\ ext_pc' = "raised"
    /\ UNCHANGED << ext_scanned, ext_files, language, ext_run, tasks, results,
                    summary >>
    /\ UNCHANGED syncvars
    /\ UNCHANGED anavars

\* lines 233-241: one row of the summary
summary_row(r) ==
    [ video |-> basename(r.video_filepath), status |-> r.status,
      index |-> r.track.index, language |-> r.track.language,
      codec_name |-> r.track.codec_name, message |-> r.message ]

\* lines 231-242: every future has been collected; the summary is printed
Summary ==
    /\ ext_pc = "collect"
    /\ \A k \in 1..Len(tasks) : tasks[k].collected
    /\ summary' = [ k \in 1..Len(results) |-> summary_row(results[k]) ]
    /\ ext_pc' = "done"
    /\ UNCHANGED << ext_scanned, ext_files, language, ext_run, tasks, results >>
    /\ UNCHANGED syncvars
    /\ UNCHANGED anavars

ExtNext ==
    \/ ExtStart
    \/ ExtNoVideos
    \/ RunTask
    \/ Collect
    \/ CollectRaises
    \/ Abort
    \/ Summary

(***************************************************************************)
(* The analyzer: media_tracks.py                                           *)
(***************************************************************************)
\* largest number of streams ffprobe reports to the analyzer
MaxAnaStreams == 3
\* largest number of runs of the analyzer
MaxAnaRuns == 2

\* the file arguments of the analyzer
AnaFiles == { join(directory, Movie \o <<".","m","k","v">>),
              join(directory, ShowS01E01 \o <<".","m","k","v">>) }

CodecTypes == { "video", "audio", "subtitle" }

\* what json.loads may return for the output of an ffprobe that exits 0: a
\* dictionary with the streams (each stream by its codec_type), or an empty
\* dictionary
ParsedOutputs ==
    { [ kind |-> "dict", streams |-> q ] : q \in ListsUpTo(CodecTypes, MaxAnaStreams) }
    \cup { [ kind |-> "empty", streams |-> <<>> ] }

\* a printed line without tables
Line(text) == [ text |-> text, video |-> <<>>, audio |-> <<>>, subtitle |-> <<>> ]

NoneValue == [ kind |-> "None", streams |-> <<>> ]
FalseValue == [ kind |-> "False", streams |-> <<>> ]

\* get_ffprobe_info without the handler of FileNotFoundError
get_ffprobe_info_uncaught(video_path, probe, parsed) ==
    CASE probe = "ok" -> [ raised |-> FALSE, value |-> parsed, printed |-> <<>> ]
      [] probe = "nonzero" ->
            [ raised |-> FALSE, value |-> NoneValue,
              printed |-> << Line("Error running ffprobe") >> ]
      [] probe = "bad_json" ->
            [ raised |-> FALSE, value |-> NoneValue,
              printed |-> << Line("Error parsing ffprobe output") >> ]
      [] probe = "not_found" ->
            [ raised |-> TRUE, value |-> NotCalled.value, printed |-> <<>> ]
\* lines 13-37: get_ffprobe_info, given how ffprobe ends ("ok", "nonzero",
\* "bad_json", "not_found") and what its output parses to
get_ffprobe_info(video_path, probe, parsed) ==
    CASE probe = "ok" -> [ raised |-> FALSE, value |-> parsed, printed |-> <<>> ]
      [] probe = "nonzero" ->
            [ raised |-> FALSE, value |-> NoneValue,
              printed |-> << Line("Error running ffprobe") >> ]
      [] probe = "bad_json" ->
            [ raised |-> FALSE, value |-> NoneValue,
              printed |-> << Line("Error parsing ffprobe output") >> ]
      [] probe = "not_found" ->
            [ raised |-> FALSE, value |-> NoneValue,
              printed |-> << Line("Error: ffprobe not found") >> ]

\* lines 223-228: get_media_info
get_media_info(video_path, exists, probe, parsed) ==
    IF ~exists
    THEN [ raised |-> FALSE, value |-> FalseValue,
           printed |-> << Line("Error: File not found") >> ]
    ELSE get_ffprobe_info(video_path, probe, parsed)

\* line 239: not media_info
Falsy(value) == value.kind \in { "None", "False", "empty" }

\* lines 91-176: the rows of the table of one codec type, by stream index
analyze_streams(streams, codec_type) ==
    LET Test(k) == streams[k] = codec_type
    IN  [ j \in 1..Len(SelectSeq([ k \in 1..Len(streams) |-> k ], Test)) |->
            SelectSeq([ k \in 1..Len(streams) |-> k ], Test)[j] - 1 ]

\* lines 242-270: what print_media_file prints for the streams
report(video_path, streams) ==
    [ text |-> "Analyzing",
      video |-> analyze_streams(streams, "video"),
      audio |-> analyze_streams(streams, "audio"),
      subtitle |-> analyze_streams(streams, "subtitle") ]

AnaInit ==
    /\ AnaIdle
    /\ SyncIdle
    /\ ExtIdle

\* lines 275-303: main parses its arguments
AnaStart ==
    /\ ana_pc \in { "idle", "exited" }
    /\ ana_run < MaxAnaRuns
    /\ ana_run' = ana_run + 1
    /\ ana_file' \in AnaFiles \cup { None }
    /\ ana_probe' = "none"
    /\ ana_got' = NotCalled
    /\ ana_printed' = <<>>
    /\ ana_exit' = -1
    /\ ana_pc' = "main"
    /\ UNCHANGED syncvars
    /\ UNCHANGED extvars

\* lines 305-308: no file was given
AnaNoFile ==
    /\ ana_pc = "main"
    /\ ana_file = None
    /\ ana_printed' = << Line("help"), Line("Error: Please specify a video file") >>
    /\ ana_exit' = 1
    /\ ana_pc' = "exited"
    /\ UNCHANGED << ana_file, ana_probe, ana_got, ana_run >>
    /\ UNCHANGED syncvars
    /\ UNCHANGED extvars

\* lines 311, 235-237: print_media_file calls get_media_info
AnaGetInfo ==
    /\ ana_pc = "main"
    /\ ana_file # None
    /\ \E exists \in BOOLEAN :
       \E probe \in IF exists THEN ProbeOutcomes ELSE { "none" } :
       \E parsed \in IF probe = "ok" THEN ParsedOutputs ELSE { NoneValue } :
          /\ ana_probe' = probe
          /\ ana_got' = get_media_info(ana_file, exists, probe, parsed)
          /\ ana_printed' = get_media_info(ana_file, exists, probe, parsed).printed
    /\ ana_pc' = "probed"
    /\ UNCHANGED << ana_file, ana_exit, ana_run >>
    /\ UNCHANGED syncvars
    /\ UNCHANGED extvars

\* lines 239-240 and 312, 316-318: no media information, print_media_file
\* returns False; an exception of get_media_info is caught by main
AnaNoInfo ==
    /\ ana_pc = "probed"
    /\ ana_got.raised \/ Falsy(ana_got.value)
    /\ ana_printed' = IF ana_got.raised
                      THEN Append(ana_printed, Line("Unexpected error"))
                      ELSE ana_printed
    /\ ana_exit' = 1
    /\ ana_pc' = "exited"
    /\ UNCHANGED << ana_file, ana_probe, ana_got, ana_run >>
    /\ UNCHANGED syncvars
    /\ UNCHANGED extvars

\* lines 242-272 and 312: the report is printed and main returns 0; when
\* the file has gone by then, stat raises and main returns 1 (lines 316-318)
AnaReport ==
    /\ ana_pc = "probed"
    /\ ~ana_got.raised
    /\ ~Falsy(ana_got.value)
    /\ \E stat_ok \in BOOLEAN :
          IF stat_ok
          THEN /\ ana_printed' = Append(ana_printed,
                                        report(ana_file, ana_got.value.streams))
               /\ ana_exit' = 0
          ELSE /\ ana_printed' = Append(ana_printed, Line("Unexpected error"))
               /\ ana_exit' = 1
    /\ ana_pc' = "exited"
    /\ UNCHANGED << ana_file, ana_probe, ana_got, ana_run >>
    /\ UNCHANGED syncvars
    /\ UNCHANGED extvars

AnaNext ==
    \/ AnaStart
    \/ AnaNoFile
    \/ AnaGetInfo
    \/ AnaNoInfo
    \/ AnaReport

\* the synchronizer run over a directory, any number of times up to MaxRuns
SyncSpec == SyncInit /\ [][SyncNext]_vars

\* the extractor run over a directory
ExtSpec == ExtInit /\ [][ExtNext]_vars

\* the analyzer run on a file argument
AnaSpec == AnaInit /\ [][AnaNext]_vars

(***************************************************************************)
(* Claims about the extractor.                                             *)
(***************************************************************************)
\* the task the pool runs next, if any
IsNextTask(k) ==
    /\ ext_pc \in {"collect", "unwinding"}
    /\ k \in 1..Len(tasks)
    /\ tasks[k].state = "pending"
    /\ \A j \in 1..(k - 1) : tasks[j].state # "pending"

\* "<video-stem>.<lang><ext>" beside the video
ClaimSubtitlePath(video_filepath, lang, ext) ==
    directory \o <<"/">> \o ClaimStem(ClaimName(video_filepath)) \o <<".">>
        \o lang \o ext

\* the positions of the streams whose language tag is the requested one
ClaimTagged(streams, lang) ==
    { j \in 1..Len(streams) : streams[j].language = lang }

\* the prober ran and listed the streams of the environment
ClaimListed(env) == env.isfile /\ env.probe = "ok" /\ env.streams # <<>>

ClaimDemuxOrConversion == {"demux", "convert", "ocr"}

\* C7: a failure in one video's pipeline does not abort the others: no call
\* of process_video_file ends by raising, main never ends on an exception,
\* and a finished run has printed one summary row per scanned video
C7_FailuresBecomeResults ==
    /\ \A k \in 1..Len(tasks) : tasks[k].state # "raised"
    /\ ext_pc # "raised"
    /\ ext_pc = "done" => Len(summary) = Len(videos_filepaths)

\* C8 as stated: a call of process_video_file on a video whose target path
\* "<video-stem>.<lang>.srt" exists reports srt_exists, changes no file and
\* makes no subprocess call
C8_Original_SrtExistsIsNoOp ==
    \A k \in 1..Len(tasks) :
        IsNextTask(k)
        /\ ClaimSubtitlePath(videos_filepaths[k], language, DotSrt)
               \in DOMAIN ext_files
        => \A way \in Runs(videos_filepaths[k], language, ext_files) :
              /\ ~way.r.raised
              /\ way.r.result.status = "srt_exists"
              /\ way.r.files = ext_files
              /\ way.r.calls = <<>>

\* C8 amended: a call of process_video_file on a video whose target path
\* "<video-stem>.<lang>.srt" exists changes no file and makes no subprocess
\* call other than the prober's, and it reports srt_exists whenever the
\* prober lists a track tagged with the requested language
C8_Amended_SrtExistsOnlyProbes ==
    \A k \in 1..Len(tasks) :
        IsNextTask(k)
        /\ ClaimSubtitlePath(videos_filepaths[k], language, DotSrt)
               \in DOMAIN ext_files
        => \A way \in Runs(videos_filepaths[k], language, ext_files) :
              /\ way.r.files = ext_files
              /\ OpsOf(way.r) \subseteq {"probe"}
              /\ ClaimListed(way.env)
                 /\ ClaimTagged(way.env.streams, language) # {}
                 => ~way.r.raised /\ way.r.result.status = "srt_exists"

\* two calls in a row have found the target path and reported srt_exists
C8_Witness ==
    /\ Len(tasks) = 2
    /\ \A k \in 1..2 :
          /\ tasks[k].state = "done"
          /\ tasks[k].result.status = "srt_exists"
          /\ tasks[k].result.subtitle_file_srt =
                ClaimSubtitlePath(videos_filepaths[k], language, DotSrt)
          /\ OpsOf(tasks[k]) = {"probe"}

\* C9: of a non-empty list of subtitle tracks, the selected track is the
\* first one in prober order whose language tag equals the requested
\* language exactly; when no track has that tag the status is
\* no_lang_track and neither a demux nor a conversion call is made
C9_FirstExactLanguageTrack ==
    \A k \in 1..Len(tasks) :
        IsNextTask(k)
        => \A way \in Runs(videos_filepaths[k], language, ext_files) :
              ClaimListed(way.env)
              => /\ ~way.r.raised
                 /\ IF ClaimTagged(way.env.streams, language) # {}
                    THEN LET first == Min(ClaimTagged(way.env.streams, language))
                         IN  /\ way.r.result.track.index_position = first - 1
                             /\ way.r.result.track.language = language
                             /\ way.r.result.track.codec_name =
                                   way.env.streams[first].codec_name
                    ELSE /\ way.r.result.status = "no_lang_track"
                         /\ OpsOf(way.r) \cap ClaimDemuxOrConversion = {}

\* a call has selected the second track, the first one differing from the
\* requested language by case only
C9_Witness ==
    \E k \in 1..Len(tasks) :
        /\ tasks[k].state = "done"
        /\ tasks[k].result.track.index_position = 1
        /\ tasks[k].result.track.language = language
        /\ "demux" \in OpsOf(tasks[k])

\* C10 as stated: when the target SRT path does not exist and the original
\* path "<video-stem>.<lang><ext>" of the selected track exists, no demux
\* call is made and the result reports already_extracted
C10_Original_ReportsAlreadyExtracted ==
    \A k \in 1..Len(tasks) :
        IsNextTask(k)
        => \A way \in Runs(videos_filepaths[k], language, ext_files) :
              /\ ~way.r.raised
              /\ way.r.result.track # NoTrack
              /\ ClaimSubtitlePath(videos_filepaths[k], language, DotSrt)
                     \notin DOMAIN ext_files
              /\ ClaimSubtitlePath(videos_filepaths[k], language,
                     extension_of(way.r.result.track.codec_name))
                     \in DOMAIN ext_files
              => /\ "demux" \notin OpsOf(way.r)
                 /\ way.r.result.status = "already_extracted"

\* C10 amended: when the target SRT path does not exist and the original
\* path "<video-stem>.<lang><ext>" of the selected track exists, no demux
\* call is made, the conversion runs on the existing file, and the result
\* reports converted when the conversion succeeds and error when it fails
C10_Amended_SkipsDemuxAndConverts ==
    \A k \in 1..Len(tasks) :
        IsNextTask(k)
        => \A way \in Runs(videos_filepaths[k], language, ext_files) :
              /\ ~way.r.raised
              /\ way.r.result.track # NoTrack
              /\ ClaimSubtitlePath(videos_filepaths[k], language, DotSrt)
                     \notin DOMAIN ext_files
              /\ ClaimSubtitlePath(videos_filepaths[k], language,
                     extension_of(way.r.result.track.codec_name))
                     \in DOMAIN ext_files
              => /\ "demux" \notin OpsOf(way.r)
                 /\ OpsOf(way.r) \cap {"convert", "ocr"} # {}
                 /\ way.r.calls[Len(way.r.calls)].input =
                       ClaimSubtitlePath(videos_filepaths[k], language,
                           extension_of(way.r.result.track.codec_name))
                 /\ way.r.result.status =
                       IF way.convert = "ok" THEN "converted" ELSE "error"

\* a call has found the original path, skipped the demux and converted the
\* existing file
C10_Witness ==
    \E k \in 1..Len(tasks) :
        /\ tasks[k].state = "done"
        /\ tasks[k].result.status = "converted"
        /\ "demux" \notin OpsOf(tasks[k])
        /\ ext_files[tasks[k].result.subtitle_file_original] = "found"

\* the way of a call in which the prober lists a track of the requested
\* language and neither "<video-stem>.<lang><ext>" nor
\* "<video-stem>.<lang>.srt" exists
ClaimFreshExtraction(video_filepath, way) ==
    /\ ClaimListed(way.env)
    /\ ClaimTagged(way.env.streams, language) # {}
    /\ LET codec == way.env.streams[Min(ClaimTagged(way.env.streams, language))].codec_name
       IN  /\ ClaimSubtitlePath(video_filepath, language, DotSrt)
                  \notin DOMAIN ext_files
           /\ ClaimSubtitlePath(video_filepath, language, extension_of(codec))
                  \notin DOMAIN ext_files

\* the calls and the status the extraction scenario asks for, given whether
\* the demux and the conversion are taken to succeed
ClaimExtraction(video_filepath, way, extract_ok, convert_ok) ==
    LET first == Min(ClaimTagged(way.env.streams, language))
        codec == way.env.streams[first].codec_name
        ext == extension_of(codec)
        original == ClaimSubtitlePath(video_filepath, language, ext)
        srt == ClaimSubtitlePath(video_filepath, language, DotSrt)
        probe == [ tool |-> "ffprobe", op |-> "probe", input |-> video_filepath,
                   output |-> None, map |-> -1 ]
        demux == [ tool |-> "ffmpeg", op |-> "demux", input |-> video_filepath,
                   output |-> original, map |-> first - 1 ]
        conversion == IF ext = DotSup
                      THEN [ tool |-> "SubtitleEdit", op |-> "ocr",
                             input |-> original, output |-> srt, map |-> -1 ]
                      ELSE [ tool |-> "ffmpeg", op |-> "convert",
                             input |-> original, output |-> srt, map |-> -1 ]
    IN  IF ~extract_ok
        THEN [ calls |-> << probe, demux >>, status |-> "error" ]
        ELSE IF Lower(codec) = Subrip
        THEN [ calls |-> << probe, demux >>, status |-> "already_srt" ]
        ELSE [ calls |-> << probe, demux, conversion >>,
               status |-> IF convert_ok THEN "converted" ELSE "error" ]

\* C11 as stated: with a selected track and neither output file present,
\* the track is demuxed by its position among the subtitle streams into
\* "<video-stem>.<lang><ext>"; a non-subrip track is then converted to
\* "<video-stem>.<lang>.srt", by the OCR tool exactly when the extension is
\* .sup, and the status is converted; a subrip track is not converted and
\* the status is already_srt
C11_Original_DemuxThenConvert ==
    \A k \in 1..Len(tasks) :
        IsNextTask(k)
        => \A way \in Runs(videos_filepaths[k], language, ext_files) :
              ClaimFreshExtraction(videos_filepaths[k], way)
              => LET asked == ClaimExtraction(videos_filepaths[k], way, TRUE, TRUE)
                 IN  /\ ~way.r.raised
                     /\ way.r.calls = asked.calls
                     /\ way.r.result.status = asked.status

\* C11 amended: the same when the demux and the conversion succeed; when
\* the demux fails no conversion call follows and the status is error, and
\* when the conversion fails the status is error
C11_Amended_DemuxThenConvert ==
    \A k \in 1..Len(tasks) :
        IsNextTask(k)
        => \A way \in Runs(videos_filepaths[k], language, ext_files) :
              ClaimFreshExtraction(videos_filepaths[k], way)
              => LET asked == ClaimExtraction(videos_filepaths[k], way,
                                  way.extract = "ok", way.convert = "ok")
                 IN  /\ ~way.r.raised
                     /\ way.r.calls = asked.calls
                     /\ way.r.result.status = asked.status

\* movie.mkv with one eng PGS track at stream index 4 was demuxed by
\* position 0 into movie.eng.sup and converted by the OCR tool to
\* movie.eng.srt
C11_Witness ==
    \E k \in 1..Len(tasks) :
        /\ tasks[k].state = "done"
        /\ language = Eng
        /\ tasks[k].result.video_filepath = join(directory, Movie \o <<".","m","k","v">>)
        /\ tasks[k].result.track.index = 4
        /\ tasks[k].result.track.codec_name = Pgs
        /\ tasks[k].result.status = "converted"
        /\ Len(tasks[k].calls) = 3
        /\ tasks[k].calls[2].op = "demux"
        /\ tasks[k].calls[2].map = 0
        /\ tasks[k].calls[2].output = join(directory, Movie \o <<".">> \o Eng \o DotSup)
        /\ tasks[k].calls[3].op = "ocr"
        /\ tasks[k].calls[3].output = join(directory, Movie \o <<".">> \o Eng \o DotSrt)

\* C13: one task per video is submitted and none is cancelled: main ends,
\* with the summary or on an exception, only when every task has run to
\* completion, and a result is gathered only from a task that has completed
C13_AllTasksRunToCompletion ==
    /\ ext_pc # "idle" => Len(tasks) = Len(videos_filepaths)
    /\ ext_pc \in {"raised", "done"} =>
          \A k \in 1..Len(tasks) : tasks[k].state # "pending"
    /\ \A k \in 1..Len(tasks) : tasks[k].collected => tasks[k].state # "pending"
    /\ Len(results) =
          Cardinality({ k \in 1..Len(tasks) :
                          tasks[k].collected /\ tasks[k].state = "done" })

\* main has ended on the exception of the first task, and the second task
\* has run to completion all the same
C13_Witness ==
    /\ ext_pc = "raised"
    /\ Len(tasks) = 2
    /\ tasks[1].state = "raised"
    /\ tasks[1].collected
    /\ tasks[2].state = "done"
    /\ ~tasks[2].collected

\* the working files of a task that got as far as computing its paths
ClaimWorkingFiles(k) ==
    IF tasks[k].state = "done" /\ tasks[k].result.track # NoTrack
    THEN { tasks[k].result.subtitle_file_original,
           tasks[k].result.subtitle_file_srt }
    ELSE {}

\* C14: the working files of the tasks of two distinct videos (the
\* extracted original path and the SRT path) are distinct
C14_WorkingFilesDistinct ==
    \A j, k \in 1..Len(tasks) :
        j # k /\ videos_filepaths[j] # videos_filepaths[k]
        => ClaimWorkingFiles(j) \cap ClaimWorkingFiles(k) = {}

\* the paths the conversion step reads and writes
ClaimConversions(calls) ==
    { j \in 1..Len(calls) : calls[j].op \in {"convert", "ocr"} }

\* C15: whenever the conversion step runs, the path it reads is not the
\* path it writes
C15_ConversionReadsAnotherPath ==
    \A k \in 1..Len(tasks) :
        \A j \in ClaimConversions(tasks[k].calls) :
            tasks[k].calls[j].input # tasks[k].calls[j].output

(***************************************************************************)
(* Claims about the analyzer.                                              *)
(***************************************************************************)
\* the three failure modes of the probing tool
ClaimFailureModes == { "nonzero", "bad_json", "not_found" }

\* C12: when the probing tool exits non-zero, emits output that is no valid
\* JSON or is not found on the path, get_ffprobe_info does not raise: it
\* prints one diagnostic, which no other failure mode prints, and returns
\* None; the analyzer's main then returns 1
C12_ProberFailuresReturnNone ==
    ana_probe \in ClaimFailureModes =>
        /\ ~ana_got.raised
        /\ ana_got.value = NoneValue
        /\ Len(ana_got.printed) = 1
        /\ ana_printed[1] = ana_got.printed[1]
        /\ \A mode \in ClaimFailureModes \ { ana_probe } :
              get_ffprobe_info(ana_file, mode, NoneValue).printed # ana_got.printed
        /\ ana_pc = "exited" => ana_exit = 1

\* the analyzer has exited after the probing tool was not found
C12_Witness ==
    /\ ana_pc = "exited"
    /\ ana_probe = "not_found"
    /\ ana_printed = << Line("Error: ffprobe not found") >>

====
